---- MODULE Spec2Model ----
(***************************************************************************)
(* Model of Oracle_DB_CRUD.py: the OracleSQL session object and the        *)
(* database it talks to through the oracledb driver.                       *)
(*                                                                         *)
(* The database is modelled as two table catalogs: `committed` (what is    *)
(* durable) and `pending` (what the session's open transaction sees).      *)
(* execute() changes `pending`, commit() makes it durable, rollback()      *)
(* discards it.  Each driver call made inside a try block may raise; the   *)
(* step that raises is the `fault` input of the operation.  Statements are *)
(* transactional alike (the code commits after CREATE and DROP as after    *)
(* INSERT), rollback() and close() of a cursor do not raise, and the       *)
(* values compared by check_duplicates are not NULL.                       *)
(***************************************************************************)
EXTENDS Integers, Sequences, FiniteSets, Bags

VARIABLES
    connection,   \* self.connection: "None", "open" or "closed"
    committed,    \* durable tables: upper-cased name -> [columns, rows];
                  \* rows is a bag, a table holds its rows in no order
    pending,      \* tables as seen by the session's open transaction
    openCursors,  \* cursors of the connection opened and not closed
    last,         \* the call that just returned: [op, table, found, fault]
    args,         \* arguments of the last call that the properties read
    calls,        \* driver calls made by the last call, in order
    out,          \* lines printed by the last call
    ret           \* what the last call returned or raised: [kind, val]

vars == <<connection, committed, pending, openCursors, last, args, calls, out, ret>>

(***************************************************************************)
(* Bounds                                                                  *)
(***************************************************************************)
MaxRows == 2        \* rows per table
MaxCursors == 2     \* leaked cursors per connection

(***************************************************************************)
(* Input domains                                                           *)
(***************************************************************************)
TableNames == {"example_table", "EXAMPLE_TABLE", "LOG"}

NoDict == [c \in {} |-> "x"]

\* columns_dict arguments; the second is columns_dic of the script
ColumnDicts ==
    { [c \in {"id"} |-> "INT"],
      [c \in {"id", "date_time"} |-> IF c = "id" THEN "INT" ELSE "DATE"],
      NoDict }

\* values_dic arguments; the second is values_dic of the script
ValueDicts ==
    { [c \in {"id"} |-> "1"],
      [c \in {"id", "date_time"} |-> IF c = "id" THEN "1" ELSE "now"],
      [c \in {"id"} |-> "2"],
      [c \in {"name"} |-> "1"],
      NoDict }

\* column_name and value arguments of check_duplicates
ColumnNames == {"id", "name"}
Values == {"1", "2"}
NULL == "NULL"

\* rows a called procedure's cursor can hold
ProcRows == { <<>>, <<"r1", "r2">> }

(***************************************************************************)
(* Python values                                                           *)
(***************************************************************************)
PyNone == [kind |-> "none", val |-> "None"]
PyBool(b) == [kind |-> "bool", val |-> b]
PyStr(s) == [kind |-> "str", val |-> s]
PyRows(r) == [kind |-> "rows", val |-> r]
Raise(e) == [kind |-> "raise", val |-> e]

\* str.upper() on the table names of the model
Upper(table_name) ==
    IF table_name = "example_table" THEN "EXAMPLE_TABLE" ELSE table_name

(***************************************************************************)
(* The database behind the driver                                          *)
(***************************************************************************)
EmptyDb == [t \in {} |-> [columns |-> NoDict, rows |-> EmptyBag]]

\* SELECT COUNT(*) FROM all_tables WHERE table_name = '<name>'
CountAllTables(db, name) == IF name \in DOMAIN db THEN 1 ELSE 0

\* CREATE TABLE <name> (<col> <type>,...)
SqlCreate(db, name, columns_dict) ==
    [t \in DOMAIN db \cup {name} |->
        IF t = name THEN [columns |-> columns_dict, rows |-> EmptyBag] ELSE db[t]]

\* an empty column list leaves "CREATE TABLE <name>)", which does not parse
SqlCreateFails(db, name, columns_dict) ==
    \/ DOMAIN columns_dict = {}
    \/ name \in DOMAIN db

\* DROP TABLE <name>
SqlDrop(db, name) == [t \in DOMAIN db \ {name} |-> db[t]]

SqlDropFails(db, name) == name \notin DOMAIN db

\* INSERT INTO <name>(<cols>) VALUES(:1, ...): columns not named are NULL
SqlInsert(db, name, values_dic) ==
    [db EXCEPT ![name].rows =
        @ (+) SetToBag({[c \in DOMAIN db[name].columns |->
                          IF c \in DOMAIN values_dic THEN values_dic[c] ELSE NULL]})]

SqlInsertFails(db, name, values_dic) ==
    \/ name \notin DOMAIN db
    \/ DOMAIN values_dic = {}
    \/ ~(DOMAIN values_dic \subseteq DOMAIN db[name].columns)

\* the rows of a table whose column equals the value
Matching(db, name, column_name, value) ==
    LET rows == db[name].rows
    IN [r \in {x \in DOMAIN rows : x[column_name] = value} |-> rows[r]]

\* SELECT <col>, COUNT(*) FROM <name> WHERE <col> = :value
\* GROUP BY <col> HAVING COUNT(*) > 1: the number of groups returned
SqlDuplicateGroups(db, name, column_name, value) ==
    IF BagCardinality(Matching(db, name, column_name, value)) > 1 THEN 1 ELSE 0

SqlDuplicatesFails(db, name, column_name) ==
    \/ name \notin DOMAIN db
    \/ column_name \notin DOMAIN db[name].columns

\* connection.commit() and connection.rollback(): [committed, pending] after
commit(c, p) == [committed |-> p, pending |-> p]
rollback(c, p) == [committed |-> c, pending |-> c]

(***************************************************************************)
(* Calls on a session without a usable connection                          *)
(***************************************************************************)
\* self.connection.cursor() / .close() on None raises AttributeError; on a
\* closed connection the driver raises InterfaceError, which is no
\* DatabaseError
NoneTypeError == "AttributeError: 'NoneType' object has no attribute"
NotConnectedError == "InterfaceError: DPY-1001: not connected to database"
NoConnectionError == IF connection = "None" THEN NoneTypeError ELSE NotConnectedError

Fails(op, table_name) ==
    /\ last' = [op |-> op, table |-> table_name, found |-> FALSE, fault |-> "none"]
    /\ ret' = Raise(NoConnectionError)
    /\ calls' = <<>>
    /\ out' = <<>>
    /\ args' = <<>>
    /\ UNCHANGED <<connection, committed, pending, openCursors>>

Init ==
    /\ connection = "None"
    /\ committed = EmptyDb
    /\ pending = EmptyDb
    /\ openCursors = 0
    /\ last = [op |-> "__init__", table |-> "", found |-> FALSE, fault |-> "none"]
    /\ args = <<>>
    /\ calls = <<>>
    /\ out = <<>>
    /\ ret = PyNone


(***************************************************************************)
(* Operations.  Each *_run operator is the body of a method on a connected *)
(* session: from the catalogs before the call it gives the catalogs after  *)
(* it, the cursors left open, the driver calls made, the lines printed and *)
(* the value returned or exception raised.                                 *)
(***************************************************************************)
Returned(op, table_name, a, o) ==
    /\ last' = [op |-> op, table |-> table_name, found |-> o.found, fault |-> o.raised]
    /\ committed' = o.committed
    /\ pending' = o.pending
    /\ openCursors' = openCursors + o.cursors
    /\ openCursors' <= MaxCursors
    /\ calls' = o.calls
    /\ out' = o.out
    /\ ret' = o.ret
    /\ args' = a
    /\ UNCHANGED connection

\* check_table_exists_run comparing the name as given, without upper()
check_table_exists_as_given(db, table_name) ==
    IF CountAllTables(db, table_name) # 0
    THEN [ret |-> PyBool(TRUE), cursors |-> 1,
          calls |-> <<"cursor", "execute SELECT", "fetchone">>]
    ELSE [ret |-> PyNone, cursors |-> 0,
          calls |-> <<"cursor", "execute SELECT", "fetchone", "close">>]

\* check_table_exists_run with the test on the count inverted
check_table_exists_inverted(db, table_name) ==
    IF CountAllTables(db, Upper(table_name)) = 0
    THEN [ret |-> PyBool(TRUE), cursors |-> 1,
          calls |-> <<"cursor", "execute SELECT", "fetchone">>]
    ELSE [ret |-> PyNone, cursors |-> 0,
          calls |-> <<"cursor", "execute SELECT", "fetchone", "close">>]

\* check_table_exists: True with the cursor left open when the catalog
\* has the upper-cased name, else the cursor is closed and the method falls
\* off its end
check_table_exists_run(db, table_name) ==
    IF CountAllTables(db, Upper(table_name)) # 0
    THEN [ret |-> PyBool(TRUE), cursors |-> 1,
          calls |-> <<"cursor", "execute SELECT", "fetchone">>]
    ELSE [ret |-> PyNone, cursors |-> 0,
          calls |-> <<"cursor", "execute SELECT", "fetchone", "close">>]

\* Python truth of a returned value
Truthy(v) == v.kind = "bool" /\ v.val

ErrorCodeMessage == <<"Error code:", "Error message:">>

create_table_run(c, p, table_name, columns_dict, fault) ==
    LET chk == check_table_exists_run(p, table_name)
        name == Upper(table_name)
    IN  IF ~Truthy(chk.ret)
        THEN IF fault = "execute" \/ SqlCreateFails(p, name, columns_dict)
             THEN [committed |-> c, pending |-> p, cursors |-> chk.cursors,
                   calls |-> chk.calls \o <<"cursor", "execute CREATE: error", "close">>,
                   out |-> ErrorCodeMessage, ret |-> PyNone,
                   found |-> FALSE, raised |-> "execute"]
             ELSE IF fault = "commit"
             THEN [committed |-> c, pending |-> SqlCreate(p, name, columns_dict),
                   cursors |-> chk.cursors,
                   calls |-> chk.calls \o
                       <<"cursor", "execute CREATE", "commit: error", "close">>,
                   out |-> ErrorCodeMessage, ret |-> PyNone,
                   found |-> FALSE, raised |-> "commit"]
             ELSE LET r == commit(c, SqlCreate(p, name, columns_dict))
                  IN [committed |-> r.committed, pending |-> r.pending,
                      cursors |-> chk.cursors,
                      calls |-> chk.calls \o
                          <<"cursor", "execute CREATE", "commit", "close">>,
                      out |-> <<"created successfully">>, ret |-> PyNone,
                      found |-> FALSE, raised |-> "none"]
        ELSE [committed |-> c, pending |-> p, cursors |-> chk.cursors,
              calls |-> chk.calls, out |-> <<"already exists">>, ret |-> PyNone,
              found |-> TRUE, raised |-> "none"]

\* except_Error without the rollback, as in the handler of create_table
except_Error_no_rollback(c, p) == [committed |-> c, pending |-> p]

\* except oracledb.Error of delete_table and insert_into_table
except_Error(c, p) == rollback(c, p)

\* delete_table and insert_into_table share their shape: statement, commit,
\* close, and rollback in the handler (which does not close the cursor)
mutate_run(c, p, chk, stmt, fails, after, fault, done) ==
    IF Truthy(chk.ret)
    THEN IF fault = "execute" \/ fails
         THEN LET r == except_Error(c, p)
              IN [committed |-> r.committed, pending |-> r.pending,
                  cursors |-> chk.cursors + 1,
                  calls |-> chk.calls \o <<"cursor", stmt \o ": error", "rollback">>,
                  out |-> <<"Error occured: ">>, ret |-> PyNone,
                  found |-> TRUE, raised |-> "execute"]
         ELSE IF fault = "commit"
         THEN LET r == except_Error(c, after)
              IN [committed |-> r.committed, pending |-> r.pending,
                  cursors |-> chk.cursors + 1,
                  calls |-> chk.calls \o <<"cursor", stmt, "commit: error", "rollback">>,
                  out |-> <<"Error occured: ">>, ret |-> PyNone,
                  found |-> TRUE, raised |-> "commit"]
         ELSE LET r == commit(c, after)
              IN [committed |-> r.committed, pending |-> r.pending,
                  cursors |-> chk.cursors,
                  calls |-> chk.calls \o <<"cursor", stmt, "commit", "close">>,
                  out |-> <<done>>, ret |-> PyNone,
                  found |-> TRUE, raised |-> "none"]
    ELSE [committed |-> c, pending |-> p, cursors |-> chk.cursors,
          calls |-> chk.calls, out |-> <<"does not exist">>, ret |-> PyNone,
          found |-> FALSE, raised |-> "none"]

delete_table_run(c, p, table_name, fault) ==
    LET chk == check_table_exists_run(p, table_name)
        name == Upper(table_name)
        fails == SqlDropFails(p, name)
    IN  mutate_run(c, p, chk, "execute DROP", fails,
                   IF fails THEN p ELSE SqlDrop(p, name), fault,
                   "deleted successfully")

insert_into_table_run(c, p, table_name, values_dic, fault) ==
    LET chk == check_table_exists_run(p, table_name)
        name == Upper(table_name)
        fails == SqlInsertFails(p, name, values_dic)
    IN  mutate_run(c, p, chk, "execute INSERT", fails,
                   IF fails THEN p ELSE SqlInsert(p, name, values_dic), fault,
                   "Record inserted successfully")

\* procedure_return as if the name were initialised to None before the try
procedure_return_initialised(bound, rows) ==
    IF bound THEN PyRows(rows) ELSE PyNone

\* return procedure_return in the finally block: the name is bound only
\* when callproc, commit and fetchall all went through
procedure_return(bound, rows) ==
    IF bound THEN PyRows(rows) ELSE Raise("UnboundLocalError")

call_procedure_run(c, p, fault, rows) ==
    IF fault = "callproc"
    THEN [committed |-> c, pending |-> p, cursors |-> 0,
          calls |-> <<"cursor", "callproc: error", "close">>,
          out |-> ErrorCodeMessage, ret |-> procedure_return(FALSE, rows),
          found |-> FALSE, raised |-> "callproc"]
    ELSE IF fault = "commit"
    THEN [committed |-> c, pending |-> p, cursors |-> 0,
          calls |-> <<"cursor", "callproc", "commit: error", "close">>,
          out |-> ErrorCodeMessage, ret |-> procedure_return(FALSE, rows),
          found |-> FALSE, raised |-> "commit"]
    ELSE LET r == commit(c, p)
         IN IF fault = "fetchall"
            THEN [committed |-> r.committed, pending |-> r.pending, cursors |-> 0,
                  calls |-> <<"cursor", "callproc", "commit", "fetchall: error", "close">>,
                  out |-> ErrorCodeMessage, ret |-> procedure_return(FALSE, rows),
                  found |-> FALSE, raised |-> "fetchall"]
            ELSE [committed |-> r.committed, pending |-> r.pending, cursors |-> 0,
                  calls |-> <<"cursor", "callproc", "commit", "fetchall", "close">>,
                  out |-> <<>>, ret |-> procedure_return(TRUE, rows),
                  found |-> FALSE, raised |-> "none"]

\* duplicates_return testing the group count against the HAVING threshold
duplicates_return_gt1(rowcount) == PyBool(rowcount > 1)

\* cur.rowcount > 0 after fetchall
duplicates_return(rowcount) == PyBool(rowcount > 0)

check_duplicates_run(c, p, table_name, column_name, value, fault) ==
    LET name == Upper(table_name)
    IN  IF fault = "execute" \/ SqlDuplicatesFails(p, name, column_name)
        THEN [committed |-> c, pending |-> p, cursors |-> 0,
              calls |-> <<"cursor", "execute SELECT: error", "close">>,
              out |-> <<"There was an error:">>, ret |-> PyBool(FALSE),
              found |-> FALSE, raised |-> "execute"]
        ELSE [committed |-> c, pending |-> p, cursors |-> 0,
              calls |-> <<"cursor", "execute SELECT", "fetchall", "close">>,
              out |-> <<>>,
              ret |-> duplicates_return(SqlDuplicateGroups(p, name, column_name, value)),
              found |-> FALSE, raised |-> "none"]


(***************************************************************************)
(* upload_log                                                              *)
(***************************************************************************)
\* values an element of procedure_inputs is drawn from
PyInputs ==
    { [type |-> "str", val |-> "drive_1"],
      [type |-> "str", val |-> "drive_7"],
      [type |-> "int", val |-> "5"],
      [type |-> "datetime", val |-> "now"] }

ProcedureInputs == [1..4 -> PyInputs]

valid_values == {"drive_1", "drive_2", "drive_3", "drive_4", "drive_5", "drive_6"}

isinstance(x, type) == x.type = type

\* what the module-level name `datetime` is bound to: the import binds it
\* to the class datetime.datetime, which has no attribute `datetime`
datetime == "class"
NoDatetimeError == "AttributeError: type object 'datetime.datetime' has no attribute 'datetime'"

Forward == [kind |-> "call", val |-> "call_procedure"]

\* the if/elif chain of upload_log; element i of the list is inputs[i + 1].
\* Evaluating datetime.datetime needs the name to be the module.
upload_log_chain(inputs) ==
    IF ~isinstance(inputs[1], "str")
    THEN PyStr("Invalid input: First input must be string")
    ELSE IF datetime # "module"
    THEN Raise(NoDatetimeError)
    ELSE IF ~isinstance(inputs[2], "datetime")
    THEN PyStr("Invalid input: Second input must be datetime")
    ELSE IF ~isinstance(inputs[3], "str")
    THEN PyStr("Invalid input: Third input must be string")
    ELSE IF ~(inputs[3].val \in valid_values)
    THEN PyStr("Invalid input: Third input must be a string of value drive_1 / 2 / 3 / 4 / 5 / 6")
    ELSE IF ~isinstance(inputs[4], "str")
    THEN PyStr("Invalid input: Fourth input must be string")
    ELSE Forward

(***************************************************************************)
(* Actions: one per method of OracleSQL                                    *)
(***************************************************************************)
\* connect_handle clearing the handle when the driver raises
connect_handle_cleared(handle, ok) == IF ok THEN "open" ELSE "None"

\* handle after oracledb.connect returned (ok) or raised DatabaseError
connect_handle(handle, ok) == IF ok THEN "open" ELSE handle

\* a new connection starts a new transaction with no cursors; the handle
\* it replaces is dropped with whatever it had pending
connect(ok) ==
    /\ connection' = connect_handle(connection, ok)
    /\ pending' = IF ok THEN committed ELSE pending
    /\ openCursors' = IF ok THEN 0 ELSE openCursors
    /\ last' = [op |-> "connect", table |-> "", found |-> FALSE,
                fault |-> IF ok THEN "none" ELSE "connect"]
    /\ calls' = IF ok THEN <<"init_oracle_client", "connect">>
                      ELSE <<"init_oracle_client", "connect: error">>
    /\ out' = IF ok THEN <<"Connected to Oracle Database">> ELSE ErrorCodeMessage
    /\ ret' = PyNone
    /\ args' = <<>>
    /\ UNCHANGED committed

\* handle after self.connection.close(): the attribute is not reassigned
close_handle(handle, ok) == IF ok THEN "closed" ELSE handle

close(ok) ==
    IF connection # "open"
    THEN Fails("close", "")
    ELSE
       /\ connection' = close_handle(connection, ok)
       /\ pending' = IF ok THEN committed ELSE pending
       /\ openCursors' = IF ok THEN 0 ELSE openCursors
       /\ last' = [op |-> "close", table |-> "", found |-> FALSE,
                   fault |-> IF ok THEN "none" ELSE "close"]
       /\ calls' = IF ok THEN <<"close connection">> ELSE <<"close connection: error">>
       /\ out' = IF ok THEN <<"Connection closed">> ELSE ErrorCodeMessage
       /\ ret' = PyNone
       /\ args' = <<>>
       /\ UNCHANGED committed

check_table_exists(table_name) ==
    IF connection # "open"
    THEN Fails("check_table_exists", table_name)
    ELSE LET chk == check_table_exists_run(pending, table_name)
         IN Returned("check_table_exists", table_name, <<>>,
                     [committed |-> committed, pending |-> pending,
                      cursors |-> chk.cursors, calls |-> chk.calls, out |-> <<>>,
                      ret |-> chk.ret, found |-> Truthy(chk.ret), raised |-> "none"])

create_table(table_name, columns_dict, fault) ==
    IF connection # "open"
    THEN Fails("create_table", table_name)
    ELSE Returned("create_table", table_name, <<columns_dict>>,
                  create_table_run(committed, pending, table_name, columns_dict, fault))

delete_table(table_name, fault) ==
    IF connection # "open"
    THEN Fails("delete_table", table_name)
    ELSE Returned("delete_table", table_name, <<>>,
                  delete_table_run(committed, pending, table_name, fault))

\* the guard keeps every table within MaxRows rows
insert_into_table(table_name, values_dic, fault) ==
    IF connection # "open"
    THEN Fails("insert_into_table", table_name)
    ELSE /\ Upper(table_name) \in DOMAIN pending =>
                BagCardinality(pending[Upper(table_name)].rows) < MaxRows
         /\ Returned("insert_into_table", table_name, <<>>,
                     insert_into_table_run(committed, pending, table_name, values_dic,
                                           fault))

call_procedure(fault, rows) ==
    IF connection # "open"
    THEN Fails("call_procedure", "")
    ELSE Returned("call_procedure", "", <<rows>>,
                  call_procedure_run(committed, pending, fault, rows))

check_duplicates(table_name, column_name, value, fault) ==
    IF connection # "open"
    THEN Fails("check_duplicates", table_name)
    ELSE Returned("check_duplicates", table_name, <<column_name, value>>,
                  check_duplicates_run(committed, pending, table_name, column_name,
                                       value, fault))

upload_log(procedure_inputs, fault, rows) ==
    LET r == upload_log_chain(procedure_inputs)
    IN  /\ IF r = Forward
           THEN IF connection # "open"
                THEN /\ ret' = Raise(NoConnectionError)
                     /\ calls' = <<>>
                     /\ out' = <<>>
                     /\ UNCHANGED <<committed, pending>>
                ELSE LET o == call_procedure_run(committed, pending, fault, rows)
                     IN /\ committed' = o.committed
                        /\ pending' = o.pending
                        /\ calls' = o.calls
                        /\ out' = o.out
                        /\ ret' = o.ret
           ELSE /\ ret' = r
                /\ calls' = <<>>
                /\ out' = <<>>
                /\ UNCHANGED <<committed, pending>>
        /\ last' = [op |-> "upload_log", table |-> "", found |-> FALSE, fault |-> "none"]
        /\ args' = procedure_inputs
        /\ UNCHANGED <<connection, openCursors>>

Faults == {"none", "execute", "commit"}
ProcFaults == {"none", "callproc", "commit", "fetchall"}

Next ==
    \/ \E ok \in BOOLEAN : connect(ok)
    \/ \E ok \in BOOLEAN : close(ok)
    \/ \E t \in TableNames : check_table_exists(t)
    \/ \E t \in TableNames, cd \in ColumnDicts, f \in Faults : create_table(t, cd, f)
    \/ \E t \in TableNames, f \in Faults : delete_table(t, f)
    \/ \E t \in TableNames, vd \in ValueDicts, f \in Faults : insert_into_table(t, vd, f)
    \/ \E f \in ProcFaults, rows \in ProcRows : call_procedure(f, rows)
    \/ \E t \in TableNames, cn \in ColumnNames, v \in Values, f \in {"none", "execute"} :
            check_duplicates(t, cn, v, f)

Spec == Init /\ [][Next]_vars

\* the session with the procedure calls only: no table is created
NextLog ==
    \/ \E ok \in BOOLEAN : connect(ok)
    \/ \E ok \in BOOLEAN : close(ok)
    \/ \E f \in ProcFaults, rows \in ProcRows : call_procedure(f, rows)
    \/ \E pi \in ProcedureInputs, f \in ProcFaults, rows \in ProcRows : upload_log(pi, f, rows)

SpecLog == Init /\ [][NextLog]_vars


(***************************************************************************)
(* Properties                                                              *)
(***************************************************************************)
Has(seq, x) == \E i \in DOMAIN seq : seq[i] = x

IsTrue(v) == v.kind = "bool" /\ v.val
IsFalse(v) == v.kind = "bool" /\ ~v.val

\* number of rows of a table holding the value in the column
RowsHolding(db, name, column_name, value) ==
    Cardinality({ rk \in UNION { {r} \X (1..db[name].rows[r]) : r \in DOMAIN db[name].rows } :
                    /\ column_name \in DOMAIN rk[1]
                    /\ rk[1][column_name] = value })

\* C1: on a connected session check_table_exists called right after a
\* create_table that met no driver error returns True, and called right
\* after a delete_table that met no driver error returns False, each an
\* explicit boolean.
C1_ExistsAfterCreateAndDrop ==
    [][ (/\ connection = "open"
         /\ last'.op = "check_table_exists"
         /\ Upper(last'.table) = Upper(last.table)
         /\ last.fault = "none")
        => /\ last.op = "create_table" => IsTrue(ret')
           /\ last.op = "delete_table" => IsFalse(ret') ]_vars

\* C2: create_table on a table the session already sees executes no CREATE
\* and no commit, leaves both catalogs as they were and prints "already
\* exists".
C2_CreateExistingIsNoOp ==
    [][ (/\ connection = "open"
         /\ last'.op = "create_table"
         /\ Upper(last'.table) \in DOMAIN pending)
        => /\ committed' = committed
           /\ pending' = pending
           /\ ~Has(calls', "execute CREATE")
           /\ ~Has(calls', "execute CREATE: error")
           /\ ~Has(calls', "commit")
           /\ ~Has(calls', "commit: error")
           /\ out' = <<"already exists">> ]_vars

\* a create_table on an existing table holding a row, with a non-empty
\* column map other than the table's, has returned
C2_Witness ==
    /\ connection = "open"
    /\ last.op = "create_table"
    /\ last.found
    /\ last.table = "example_table"
    /\ DOMAIN args[1] # {}
    /\ args[1] # pending["EXAMPLE_TABLE"].columns
    /\ pending["EXAMPLE_TABLE"].rows # EmptyBag

\* C3: insert_into_table on a table that does not exist executes no INSERT,
\* no commit and no rollback, leaves both catalogs as they were and prints
\* "does not exist".
C3_InsertMissingTable ==
    [][ (/\ connection = "open"
         /\ last'.op = "insert_into_table"
         /\ Upper(last'.table) \notin DOMAIN pending)
        => /\ committed' = committed
           /\ pending' = pending
           /\ ~Has(calls', "execute INSERT")
           /\ ~Has(calls', "execute INSERT: error")
           /\ ~Has(calls', "commit")
           /\ ~Has(calls', "commit: error")
           /\ ~Has(calls', "rollback")
           /\ ret' = PyNone
           /\ out' = <<"does not exist">> ]_vars

\* an insert_into_table on a missing table has returned while another
\* table holds rows
C3_Witness ==
    /\ connection = "open"
    /\ last.op = "insert_into_table"
    /\ ~last.found
    /\ Upper(last.table) \notin DOMAIN pending
    /\ \E t \in DOMAIN committed : committed[t].rows # EmptyBag

\* C4: check_duplicates returns True exactly when the query ran and at
\* least two rows of the table hold the value in the column, and returns
\* False when the database reported an error, as it does for a missing
\* table.
C4_DuplicatesIffTwoRows ==
    (connection = "open" /\ last.op = "check_duplicates")
    => LET name == Upper(last.table)
       IN /\ ret.kind = "bool"
          /\ name \notin DOMAIN pending => last.fault # "none"
          /\ last.fault # "none" => IsFalse(ret)
          /\ last.fault = "none" =>
                (IsTrue(ret) <=> RowsHolding(pending, name, args[1], args[2]) >= 2)

\* check_duplicates has returned True on a table where exactly two rows hold
\* the value
C4_Witness ==
    /\ connection = "open"
    /\ last.op = "check_duplicates"
    /\ IsTrue(ret)
    /\ RowsHolding(pending, Upper(last.table), args[1], args[2]) = 2

\* the message the claim gives for the first rule a list of inputs breaks
FirstViolation(inputs) ==
    IF inputs[1].type # "str" THEN "Invalid input: First input must be string"
    ELSE IF inputs[2].type # "datetime" THEN "Invalid input: Second input must be datetime"
    ELSE IF inputs[3].type # "str" THEN "Invalid input: Third input must be string"
    ELSE IF inputs[3].val \notin valid_values
    THEN "Invalid input: Third input must be a string of value drive_1 / 2 / 3 / 4 / 5 / 6"
    ELSE IF inputs[4].type # "str" THEN "Invalid input: Fourth input must be string"
    ELSE "valid"

\* C5: upload_log returns the message of the first rule its inputs break
\* without a driver call, and with four valid inputs it reaches
\* call_procedure.
C5_FirstViolationOrCall ==
    (connection = "open" /\ last.op = "upload_log")
    => IF FirstViolation(args) = "valid"
       THEN Has(calls, "cursor")
       ELSE ret = PyStr(FirstViolation(args)) /\ calls = <<>>

\* C6: call_procedure leaves no cursor open; with no driver error it
\* commits and returns the rows fetched; with a driver error in callproc,
\* commit or fetchall it prints the error and raises UnboundLocalError.
C6_CallProcedure ==
    [][ (connection = "open" /\ last'.op = "call_procedure")
        => /\ openCursors' = openCursors
           /\ calls'[1] = "cursor"
           /\ calls'[Len(calls')] = "close"
           /\ last'.fault = "none" =>
                 /\ Has(calls', "commit")
                 /\ committed' = pending
                 /\ ret' = PyRows(args'[1])
           /\ last'.fault # "none" =>
                 /\ ret' = Raise("UnboundLocalError")
                 /\ out' = ErrorCodeMessage ]_vars

\* call_procedure has raised UnboundLocalError after a failed commit
C6_Witness ==
    /\ connection = "open"
    /\ last.op = "call_procedure"
    /\ last.fault = "commit"
    /\ ret = Raise("UnboundLocalError")
    /\ calls = <<"cursor", "callproc", "commit: error", "close">>

\* C7: the handle is either unset or an open connection, a close that
\* met no error leaves it unset, and every operation on a session that is
\* not connected fails as it does on a new session.
C7_TwoStates ==
    /\ connection \in {"None", "open"}
    /\ (last.op = "close" /\ last.fault = "none" /\ ret.kind # "raise")
           => connection = "None"
    /\ (connection # "open" /\ last.op \notin {"__init__", "connect", "close"})
           => ret = Raise(NoneTypeError)

\* C8: a connect that meets a database error prints the code and message,
\* raises nothing and leaves the handle as it was; the handle leaves the
\* unset state only by a connect that met no error.
C8_ConnectFailure ==
    [][ /\ (last'.op = "connect" /\ last'.fault = "connect")
            => /\ connection' = connection
               /\ out' = ErrorCodeMessage
               /\ ret' = PyNone
        /\ (connection = "None" /\ connection' # "None")
            => /\ last'.op = "connect"
               /\ last'.fault = "none"
               /\ connection' = "open" ]_vars

\* a connect on an open session has failed and the session is still open
C8_Witness ==
    /\ last.op = "connect"
    /\ last.fault = "connect"
    /\ connection = "open"
    /\ out = ErrorCodeMessage

C10_NoOpenCursors ==
    connection = "open" => openCursors = 0

====
